---- MODULE Spec2Model ----
(***************************************************************************)
(* TM-Notes-Vault: the cryptographic vault layer of the notes manager.     *)
(*                                                                         *)
(*   src/services/crypto.ts   text and file ciphers                        *)
(*   src/unnamed/part_000     db: record store and object store wrappers   *)
(*   src/App.tsx              vault session, attachment indexer, saving    *)
(*                                                                         *)
(* Strings are sequences of UTF-16 code units (numbers) and byte buffers    *)
(* are sequences of numbers 0..255.                                        *)
(***************************************************************************)
EXTENDS Integers, Sequences, FiniteSets, TLC

(***************************************************************************)
(* Bounds of the model                                                     *)
(***************************************************************************)
\* longest text (in UTF-16 code units) given to the text cipher
MaxLen == 3

\* lengths fixed by the code
SaltLen == 16
IvLen == 12
TagLen == 16
HeaderLen == 28

(***************************************************************************)
(* Sequence helpers                                                        *)
(***************************************************************************)
RECURSIVE SumSeq(_)
SumSeq(s) == IF s = <<>> THEN 0 ELSE Head(s) + SumSeq(Tail(s))

Slice(s, from, to) ==
    \* ArrayBuffer.slice(from, to): zero-based, end exclusive, clamped
    LET hi == IF to > Len(s) THEN Len(s) ELSE to
    IN  IF from >= hi THEN <<>> ELSE SubSeq(s, from + 1, hi)

RECURSIVE SeqsUpTo(_, _)
SeqsUpTo(S, n) ==
    IF n = 0 THEN {<<>>}
    ELSE LET shorter == SeqsUpTo(S, n - 1)
         IN  shorter \cup {Append(s, x) : s \in shorter, x \in S}

(***************************************************************************)
(* TextEncoder / TextDecoder (crypto.ts lines 1-2)                         *)
(***************************************************************************)
IsHighSurrogate(u) == u >= 55296 /\ u <= 56319
IsLowSurrogate(u) == u >= 56320 /\ u <= 57343
ReplacementChar == 65533
ByteOrderMark == 65279

\* the Unicode scalar values of a JavaScript string: a surrogate pair is one
\* scalar value, an unpaired surrogate becomes U+FFFD
RECURSIVE ToScalars(_)
ToScalars(s) ==
    IF s = <<>> THEN <<>>
    ELSE IF IsHighSurrogate(s[1]) /\ Len(s) >= 2 /\ IsLowSurrogate(s[2])
         THEN <<65536 + (s[1] - 55296) * 1024 + (s[2] - 56320)>>
                  \o ToScalars(Tail(Tail(s)))
         ELSE IF IsHighSurrogate(s[1]) \/ IsLowSurrogate(s[1])
              THEN <<ReplacementChar>> \o ToScalars(Tail(s))
              ELSE <<s[1]>> \o ToScalars(Tail(s))

Utf8Bytes(cp) ==
    IF cp < 128 THEN <<cp>>
    ELSE IF cp < 2048 THEN <<192 + (cp \div 64), 128 + (cp % 64)>>
    ELSE IF cp < 65536
         THEN <<224 + (cp \div 4096), 128 + ((cp \div 64) % 64), 128 + (cp % 64)>>
         ELSE <<240 + (cp \div 262144), 128 + ((cp \div 4096) % 64),
                128 + ((cp \div 64) % 64), 128 + (cp % 64)>>

\* enc.encode(text)
RECURSIVE EncodeScalars(_)
EncodeScalars(cps) ==
    IF cps = <<>> THEN <<>> ELSE Utf8Bytes(Head(cps)) \o EncodeScalars(Tail(cps))

TextEncode(s) == EncodeScalars(ToScalars(s))

IsCont(b) == b >= 128 /\ b <= 191

\* the scalar values of a byte sequence; a malformed byte decodes to U+FFFD
RECURSIVE DecodeScalars(_)
DecodeScalars(b) ==
    IF b = <<>> THEN <<>>
    ELSE IF b[1] < 128 THEN <<b[1]>> \o DecodeScalars(Tail(b))
    ELSE IF b[1] >= 194 /\ b[1] <= 223 /\ Len(b) >= 2 /\ IsCont(b[2])
         THEN <<(b[1] - 192) * 64 + (b[2] - 128)>> \o DecodeScalars(Slice(b, 2, Len(b)))
    ELSE IF b[1] >= 224 /\ b[1] <= 239 /\ Len(b) >= 3 /\ IsCont(b[2]) /\ IsCont(b[3])
         THEN <<(b[1] - 224) * 4096 + (b[2] - 128) * 64 + (b[3] - 128)>>
                  \o DecodeScalars(Slice(b, 3, Len(b)))
    ELSE IF b[1] >= 240 /\ b[1] <= 244 /\ Len(b) >= 4
              /\ IsCont(b[2]) /\ IsCont(b[3]) /\ IsCont(b[4])
         THEN <<(b[1] - 240) * 262144 + (b[2] - 128) * 4096
                    + (b[3] - 128) * 64 + (b[4] - 128)>>
                  \o DecodeScalars(Slice(b, 4, Len(b)))
    ELSE <<ReplacementChar>> \o DecodeScalars(Tail(b))

RECURSIVE FromScalars(_)
FromScalars(cps) ==
    IF cps = <<>> THEN <<>>
    ELSE IF Head(cps) >= 65536
         THEN <<55296 + ((Head(cps) - 65536) \div 1024),
                56320 + ((Head(cps) - 65536) % 1024)>> \o FromScalars(Tail(cps))
         ELSE <<Head(cps)>> \o FromScalars(Tail(cps))

\* dec.decode(bytes): new TextDecoder() has ignoreBOM = false, so a leading
\* byte order mark is consumed and not part of the result
TextDecode(b) ==
    LET cps == DecodeScalars(b)
    IN  IF cps # <<>> /\ Head(cps) = ByteOrderMark
        THEN FromScalars(Tail(cps))
        ELSE FromScalars(cps)

(***************************************************************************)
(* toHex / fromHex (crypto.ts lines 18-19, 29)                             *)
(***************************************************************************)
\* the characters '0'..'9', 'a'..'f'
HexChars == <<48, 49, 50, 51, 52, 53, 54, 55, 56, 57, 97, 98, 99, 100, 101, 102>>

\* b.toString(16): no leading zero
ToString16(b) ==
    IF b < 16 THEN <<HexChars[b + 1]>>
    ELSE <<HexChars[(b \div 16) + 1], HexChars[(b % 16) + 1]>>

\* s.padStart(2, '0')
PadStart2(s) == IF Len(s) < 2 THEN <<HexChars[1]>> \o s ELSE s

RECURSIVE toHex(_)
toHex(buf) ==
    IF buf = <<>> THEN <<>> ELSE PadStart2(ToString16(Head(buf))) \o toHex(Tail(buf))

\* the value of a hexadecimal digit in either case, -1 for any other character
HexDigit(c) ==
    IF c >= 48 /\ c <= 57 THEN c - 48
    ELSE IF c >= 97 /\ c <= 102 THEN c - 87
    ELSE IF c >= 65 /\ c <= 70 THEN c - 55
    ELSE -1

IsWhiteSpace(c) == c \in {9, 10, 11, 12, 13, 32}

RECURSIVE TrimStart(_)
TrimStart(g) ==
    IF g # <<>> /\ IsWhiteSpace(Head(g)) THEN TrimStart(Tail(g)) ELSE g

\* parseInt(byte, 16) of a group of one or two characters without a sign:
\* leading white space and a 0x prefix are dropped, the digits up to the first
\* character that is not one are read, and the result is NaN (-1 here) when
\* there is none
ParseInt16(g) ==
    LET t == TrimStart(g)
        d == IF Len(t) = 2 /\ t[1] = 48 /\ t[2] \in {88, 120} THEN <<>> ELSE t
    IN  IF d = <<>> \/ HexDigit(d[1]) < 0 THEN -1
        ELSE IF Len(d) = 1 \/ HexDigit(d[2]) < 0 THEN HexDigit(d[1])
        ELSE HexDigit(d[1]) * 16 + HexDigit(d[2])

\* the element new Uint8Array([n]) holds: 0 for NaN
ToUint8(n) == IF n < 0 THEN 0 ELSE n % 256

\* hex.match(/.{1,2}/g).map(byte => parseInt(byte, 16)), for a string without
\* line terminators
RECURSIVE fromHex(_)
fromHex(hex) ==
    IF hex = <<>> THEN <<>>
    ELSE IF Len(hex) = 1 THEN <<ToUint8(ParseInt16(hex))>>
    ELSE <<ToUint8(ParseInt16(SubSeq(hex, 1, 2)))>> \o fromHex(Tail(Tail(hex)))

(***************************************************************************)
(* Results of operations that may throw                                    *)
(***************************************************************************)
Failure == [ok |-> FALSE]
Ok(v) == [ok |-> TRUE, value |-> v]

(***************************************************************************)
(* Key derivation and AES-GCM (crypto.ts lines 4-14, 24, 35)               *)
(*                                                                         *)
(* PBKDF2 is a deterministic function of the password bytes and the salt.  *)
(* AES-GCM is modelled on bytes: a keystream masks the plaintext and a     *)
(* TagLen-byte tag, a keyed checksum of the plaintext, is appended;        *)
(* decryption recomputes the tag and throws when it differs.               *)
(***************************************************************************)
\* getPasswordKey(password)
getPasswordKey(password) == TextEncode(password)

\* deriveKey(passwordKey, salt, usage)
deriveKey(passwordKey, salt) == [pw |-> passwordKey, salt |-> salt]

KeyNum(key) == SumSeq(key.pw) * 7 + SumSeq(key.salt) * 3 + Len(key.pw)

KeyStream(key, iv) == (KeyNum(key) + SumSeq(iv)) % 256

GcmTag(key, iv, pt) ==
    [j \in 1..TagLen |->
        (KeyNum(key) * j + SumSeq(iv) + SumSeq(pt) + Len(pt) * (j + 1)) % 256]

\* crypto.subtle.encrypt({name: "AES-GCM", iv}, key, data): ciphertext || tag
GcmEncrypt(key, iv, pt) ==
    [i \in 1..Len(pt) |-> (pt[i] + KeyStream(key, iv) + i) % 256] \o GcmTag(key, iv, pt)

\* crypto.subtle.decrypt({name: "AES-GCM", iv}, key, data): throws (OperationError)
\* when the data is shorter than a tag or the tag does not verify
GcmDecrypt(key, iv, data) ==
    IF Len(data) < TagLen THEN Failure
    ELSE LET n == Len(data) - TagLen
             pt == [i \in 1..n |-> (data[i] + 512 - KeyStream(key, iv) - i) % 256]
         IN  IF SubSeq(data, n + 1, Len(data)) = GcmTag(key, iv, pt)
             THEN Ok(pt)
             ELSE Failure

(***************************************************************************)
(* Text cipher (crypto.ts lines 17-37)                                     *)
(***************************************************************************)
NoSalt == <<>>

\* encryptData(text, password, providedSalt?) where rndSalt and rndIv are the
\* values getRandomValues returns in this call
encryptData(text, password, providedSalt, rndSalt, rndIv) ==
    LET salt == IF providedSalt # NoSalt THEN fromHex(providedSalt) ELSE rndSalt
        iv == rndIv
        aesKey == deriveKey(getPasswordKey(password), salt)
        encrypted == GcmEncrypt(aesKey, iv, TextEncode(text))
    IN  [ciphertext |-> toHex(encrypted), iv |-> toHex(iv), salt |-> toHex(salt)]

\* decryptData(ciphertext, ivHex, saltHex, password); hex.match(...) is null for an
\* empty (or missing) string and the call throws
decryptData(ciphertext, ivHex, saltHex, password) ==
    IF ciphertext = <<>> \/ ivHex = <<>> \/ saltHex = <<>> THEN Failure
    ELSE LET salt == fromHex(saltHex)
             iv == fromHex(ivHex)
             data == fromHex(ciphertext)
             aesKey == deriveKey(getPasswordKey(password), salt)
             decrypted == GcmDecrypt(aesKey, iv, data)
         IN  IF decrypted.ok THEN Ok(TextDecode(decrypted.value)) ELSE Failure

(***************************************************************************)
(* File cipher (crypto.ts lines 40-63)                                     *)
(***************************************************************************)
\* variant: the iv is packed before the salt
encryptFile_IvFirst(fileData, password, rndSalt, rndIv) ==
    LET aesKey == deriveKey(getPasswordKey(password), rndSalt)
    IN  rndIv \o rndSalt \o GcmEncrypt(aesKey, rndIv, fileData)

\* encryptFile(file, password): Blob([salt, iv, encrypted])
encryptFile(fileData, password, rndSalt, rndIv) ==
    LET aesKey == deriveKey(getPasswordKey(password), rndSalt)
    IN  rndSalt \o rndIv \o GcmEncrypt(aesKey, rndIv, fileData)

\* variant: the ciphertext is read from one byte too early
decryptFile_ShortHeader(buffer, password) ==
    LET salt == Slice(buffer, 0, SaltLen)
        iv == Slice(buffer, SaltLen, HeaderLen)
        data == Slice(buffer, HeaderLen - 1, Len(buffer))
        aesKey == deriveKey(getPasswordKey(password), salt)
    IN  GcmDecrypt(aesKey, iv, data)

\* decryptFile(encryptedBlob, password, mimeType?)
decryptFile(buffer, password) ==
    LET salt == Slice(buffer, 0, SaltLen)
        iv == Slice(buffer, SaltLen, HeaderLen)
        data == Slice(buffer, HeaderLen, Len(buffer))
        aesKey == deriveKey(getPasswordKey(password), salt)
    IN  GcmDecrypt(aesKey, iv, data)

(***************************************************************************)
(* Bounds and input sets of the application model                          *)
(***************************************************************************)
\* notes that can be created
MaxNotes == 2
\* files that can be uploaded
MaxUploads == 2
\* handleUnlock calls in flight at once
MaxInflight == 2
\* indexAttachments runs in flight at once
MaxRuns == 2
\* timer handles
MaxTimers == 3
\* downloads of one path that are counted
MaxIndexed == 2

NoteIds == 1..MaxNotes
TimerIds == 1..MaxTimers

\* strings typed by the user: "" , "a", "b"
Empty == <<>>
Texts == {Empty, <<97>>, <<98>>}
\* passwords "p" and "q"
Passwords == {<<112>>, <<113>>}
Title == "T"

\* values drawn by getRandomValues
Salts == {[i \in 1..SaltLen |-> i], [i \in 1..SaltLen |-> 255]}
Ivs == {[i \in 1..IvLen |-> 0], [i \in 1..IvLen |-> 16 * i]}
AppSalts == {[i \in 1..SaltLen |-> i]}
AppIvs == {[i \in 1..IvLen |-> 16 * i]}

\* files the user can attach: a text file and an image
FileTxt == [ext |-> "txt", data |-> <<104>>]
FilePng == [ext |-> "png", data |-> <<137>>]

(***************************************************************************)
(* Maps (JavaScript objects used as records keyed by id or path)           *)
(***************************************************************************)
EmptyMap == <<>>
Put(m, k, v) == [x \in (DOMAIN m) \cup {k} |-> IF x = k THEN v ELSE m[x]]
Remove(m, k) == [x \in (DOMAIN m) \ {k} |-> m[x]]

(***************************************************************************)
(* File classification (App.tsx lines 444-454)                             *)
(***************************************************************************)
isTextFile(ext) ==
    ext \in {"txt", "md", "json", "js", "ts", "log", "html", "css", "csv"}
isImageFile(ext) ==
    ext \in {"png", "jpg", "jpeg", "gif", "webp", "svg", "bmp"}

(***************************************************************************)
(* State                                                                   *)
(***************************************************************************)
VARIABLES
    mounted,               \* the App component is mounted
    dbNotes,               \* rows of the remote notes table, by id
    store,                 \* the remote object store: path -> bytes
    notes,                 \* useState notes: the rows last fetched, mapped
    fetching,              \* a fetchNotes call is in flight
    selectedNoteId,        \* 0 stands for null
    isEditing,
    isCreating,
    unlockPassword,
    decryptedCache,        \* note id -> [title, content]
    attachmentTextCache,   \* path -> decoded text
    attachmentImageCache,  \* path -> data URL
    lockTimerRef,          \* 0 stands for null
    timers,                \* the timeouts that are pending
    existingAttachments,
    isUploading,
    saving,                \* the save handler in flight
    unlocks,               \* the handleUnlock calls in flight
    runs,                  \* the indexAttachments calls in flight
    readers,               \* FileReaders that have not fired onloadend yet
    lastAlert,             \* the message of the alert() of the last step, if any
    wire,                  \* what the last completed save sent to the remote stores
    saved,                 \* note id -> what the last completed save of it was given
    indexed,               \* path -> stores of it into a preview cache
    previewData,           \* useState previewData: the attachment shown in the preview
    downloadedFile,        \* the file last handed to the browser by a download link
    cText, cPwd, cSalt, cIv, cPayload, cTry, cOut, \* the cipher functions on their own
    dPrimary, dLegacy, dCalls, dOut                \* db.downloadFile on its own

sessionVars == <<selectedNoteId, isEditing, isCreating, unlockPassword, decryptedCache,
                 lockTimerRef, timers, unlocks, mounted>>
indexVars == <<attachmentTextCache, attachmentImageCache, runs, readers, indexed>>
saveVars == <<dbNotes, store, notes, fetching, existingAttachments, isUploading,
              saving, wire, saved>>
cipherVars == <<cText, cPwd, cSalt, cIv, cPayload, cTry, cOut>>
viewVars == <<previewData, downloadedFile>>
dbVars == <<dPrimary, dLegacy, dCalls, dOut>>
vars == <<sessionVars, indexVars, saveVars, viewVars, dbVars, cipherVars, lastAlert>>

None == [kind |-> "none"]

(***************************************************************************)
(* db (src/unnamed/part_000)                                               *)
(***************************************************************************)
\* a || b on strings
OrElse(a, b) == IF a # Empty THEN a ELSE b

\* db.getNotes(): content is n.ciphertext || n.content || ''
getNotes(rows) ==
    [id \in DOMAIN rows |->
        [id |-> id,
         title |-> rows[id].title,
         content |-> OrElse(rows[id].ciphertext, OrElse(rows[id].content, Empty)),
         is_encrypted |-> rows[id].is_encrypted,
         iv |-> rows[id].iv,
         salt |-> rows[id].salt,
         attachments |-> rows[id].attachments]]

\* db.insertNote(note): the row written; the content column is not set
insertNote(rows, id, note) ==
    Put(rows, id,
        [title |-> note.title,
         ciphertext |-> note.content,
         content |-> Empty,
         is_encrypted |-> note.is_encrypted,
         iv |-> note.iv,
         salt |-> note.salt,
         attachments |-> note.attachments])

\* db.updateNote(id, updates): updates.content is moved to the ciphertext column
\* only when it is truthy; otherwise it is written to the content column
updateNote(rows, id, updates) ==
    IF id \notin DOMAIN rows THEN rows
    ELSE Put(rows, id,
        [title |-> updates.title,
         ciphertext |-> IF updates.content # Empty THEN updates.content
                        ELSE rows[id].ciphertext,
         content |-> IF updates.content # Empty THEN rows[id].content
                     ELSE updates.content,
         is_encrypted |-> updates.is_encrypted,
         iv |-> updates.iv,
         salt |-> updates.salt,
         attachments |-> updates.attachments])

\* error messages, word by word
ObjectNotFound == <<"Object", "not", "found">>
FailedToFetch == <<"Failed", "to", "fetch">>

\* message.includes(part)
Includes(message, part) ==
    \E i \in 1..(Len(message) - Len(part) + 1) :
        SubSeq(message, i, i + Len(part) - 1) = part

\* variant: the legacy bucket is tried after every error of the primary one
downloadFile_AnyError(primary, legacy) ==
    IF ~primary.ok /\ legacy.ok
    THEN Ok(legacy.value)
    ELSE IF ~primary.ok THEN primary
    ELSE Ok(primary.value)

\* db.downloadFile(path) given the answers of the primary and the legacy bucket
downloadFile(primary, legacy) ==
    IF ~primary.ok /\ Includes(primary.error.message, ObjectNotFound) /\ legacy.ok
    THEN Ok(legacy.value)
    ELSE IF ~primary.ok THEN primary
    ELSE Ok(primary.value)

\* the buckets db.downloadFile asks, in order
downloadCalls(primary) ==
    IF ~primary.ok /\ Includes(primary.error.message, ObjectNotFound)
    THEN <<"primary", "legacy">>
    ELSE <<"primary">>

\* db.uploadFile(file, fileName): the path is user id / timestamp _ file name
uploadPath(n, ext) == [n |-> n, ext |-> ext]

(***************************************************************************)
(* What the component renders (App.tsx lines 589, 1330, 1445-1462, 1616)   *)
(***************************************************************************)
HasSelected == selectedNoteId \in DOMAIN notes
\* useMemo selectedNote
selectedNote == notes[selectedNoteId]

LockScreenShown ==
    /\ mounted /\ ~isCreating /\ HasSelected
    /\ selectedNote.is_encrypted
    /\ selectedNoteId \notin DOMAIN decryptedCache
EditFormShown ==
    mounted /\ ~isCreating /\ HasSelected /\ ~LockScreenShown /\ isEditing
NoteViewShown ==
    mounted /\ ~isCreating /\ HasSelected /\ ~LockScreenShown /\ ~isEditing

\* the keys k of a cache for which cache[k] is truthy
TruthyKeys(m) == {k \in DOMAIN m : m[k] # Empty}

FreshId(used, ids) == CHOOSE i \in ids \ used : \A j \in ids \ used : i <= j

(***************************************************************************)
(* indexAttachments (App.tsx lines 615-654)                                *)
(***************************************************************************)
RunIds == 1..MaxRuns

RunPath(r) == r.attachments[r.idx]

\* the two conditions of the loop body, on the caches the closure holds
NeedsText(r) == isTextFile(RunPath(r).ext) /\ RunPath(r) \notin r.textKeys
NeedsImage(r) ==
    /\ ~NeedsText(r)
    /\ isImageFile(RunPath(r).ext) /\ RunPath(r) \notin r.imageKeys

At(r, i) == [r EXCEPT !.idx = i]

\* the loop runs on from attachments[from] up to the first path for which it
\* calls db.downloadFile, where it awaits; it ends if there is none
LoopFrom(r, from) ==
    LET hits == {i \in from..Len(r.attachments) :
                    NeedsText(At(r, i)) \/ NeedsImage(At(r, i))}
    IN  IF hits = {} THEN {}
        ELSE {At(r, CHOOSE i \in hits : \A j \in hits : i <= j)}

UsedRunIds(rs) == {r.rid : r \in rs} \cup {rd.rid : rd \in readers}

\* variant: the run is started without the password
StartedRuns_NoPassword(rs, note, password, textKeys, imageKeys) ==
    IF note.attachments = <<>> THEN rs
    ELSE rs \cup LoopFrom([rid |-> FreshId(UsedRunIds(rs), RunIds),
                           is_encrypted |-> note.is_encrypted,
                           attachments |-> note.attachments,
                           password |-> Empty,
                           textKeys |-> textKeys,
                           imageKeys |-> imageKeys,
                           idx |-> 1], 1)

\* indexAttachments(note, password) is called: the closure holds the caches of the
\* render that created it (textKeys, imageKeys); nothing runs for a note
\* without attachments
StartedRuns(rs, note, password, textKeys, imageKeys) ==
    IF note.attachments = <<>> THEN rs
    ELSE rs \cup LoopFrom([rid |-> FreshId(UsedRunIds(rs), RunIds),
                           is_encrypted |-> note.is_encrypted,
                           attachments |-> note.attachments,
                           password |-> password,
                           textKeys |-> textKeys,
                           imageKeys |-> imageKeys,
                           idx |-> 1], 1)

CanStartRun(note) == note.attachments = <<>> \/ RunIds \ UsedRunIds(runs) # {}

\* the run after the loop body for its current path has ended
Advanced(rs, r) == (rs \ {r}) \cup LoopFrom(r, r.idx + 1)

\* one more store of a path into a preview cache (counted up to MaxIndexed)
Bump(c, path) == [c EXCEPT ![path] = IF @ < MaxIndexed THEN @ + 1 ELSE @]

\* the bytes the loop body decodes: decryptFile only for an encrypted note
\* with a truthy password
FinalBlob(r, blob) ==
    IF r.is_encrypted /\ r.password # Empty
    THEN decryptFile(blob, r.password)
    ELSE Ok(blob)

\* variant: a failure for one path ends the whole run
IndexFetched_AbortsOnFailure(r, primary) ==
    /\ r \in runs
    /\ LET blob == downloadFile(primary, [ok |-> FALSE, error |-> [message |-> ObjectNotFound]])
           final == IF blob.ok THEN FinalBlob(r, blob.value) ELSE Failure
       IN  /\ runs' = IF final.ok THEN Advanced(runs, r) ELSE runs \ {r}
           /\ IF ~final.ok
              THEN UNCHANGED <<attachmentTextCache, readers, indexed>>
              ELSE IF NeedsText(r)
                   THEN /\ IF mounted
                           THEN /\ attachmentTextCache' =
                                       Put(attachmentTextCache, RunPath(r),
                                           TextDecode(final.value))
                                /\ indexed' = Bump(indexed, RunPath(r))
                           ELSE UNCHANGED <<attachmentTextCache, indexed>>
                        /\ UNCHANGED readers
                   ELSE /\ readers' = readers \cup
                               {[path |-> RunPath(r), data |-> final.value, rid |-> r.rid]}
                        /\ UNCHANGED <<attachmentTextCache, indexed>>
    /\ UNCHANGED attachmentImageCache
    /\ UNCHANGED <<sessionVars, saveVars, viewVars, dbVars, cipherVars>>
    /\ lastAlert' = ""

\* db.downloadFile(path) answers; the rest of the loop body runs, and the loop
\* goes on to its next download
IndexFetched(r, primary) ==
    /\ r \in runs
    /\ LET blob == downloadFile(primary, [ok |-> FALSE, error |-> [message |-> ObjectNotFound]])
           final == IF blob.ok THEN FinalBlob(r, blob.value) ELSE Failure
       IN  /\ runs' = Advanced(runs, r)
           /\ IF ~final.ok
              THEN UNCHANGED <<attachmentTextCache, readers, indexed>>
              ELSE IF NeedsText(r)
                   THEN /\ IF mounted
                           THEN /\ attachmentTextCache' =
                                       Put(attachmentTextCache, RunPath(r),
                                           TextDecode(final.value))
                                /\ indexed' = Bump(indexed, RunPath(r))
                           ELSE UNCHANGED <<attachmentTextCache, indexed>>
                        /\ UNCHANGED readers
                   ELSE /\ readers' = readers \cup
                               {[path |-> RunPath(r), data |-> final.value, rid |-> r.rid]}
                        /\ UNCHANGED <<attachmentTextCache, indexed>>
    /\ UNCHANGED attachmentImageCache
    /\ UNCHANGED <<sessionVars, saveVars, viewVars, dbVars, cipherVars>>
    /\ lastAlert' = ""

\* reader.onloadend
ReaderLoadEnd(rd) ==
    /\ rd \in readers
    /\ readers' = readers \ {rd}
    /\ IF mounted
       THEN /\ attachmentImageCache' =
                   Put(attachmentImageCache, rd.path, [dataUrl |-> rd.data])
            /\ indexed' = Bump(indexed, rd.path)
       ELSE UNCHANGED <<attachmentImageCache, indexed>>
    /\ UNCHANGED <<attachmentTextCache, runs>>
    /\ UNCHANGED <<sessionVars, saveVars, viewVars, dbVars, cipherVars>>
    /\ lastAlert' = ""

\* what the primary bucket answers for a path
PrimaryAnswers(path) ==
    {[ok |-> FALSE, error |-> [message |-> FailedToFetch]]}
        \cup (IF path \in DOMAIN store
              THEN {[ok |-> TRUE, value |-> store[path]]}
              ELSE {[ok |-> FALSE, error |-> [message |-> ObjectNotFound]]})

(***************************************************************************)
(* Vault session (App.tsx lines 559-563, 695-727)                          *)
(***************************************************************************)
\* variant: the timeout is not cleared
Cleared_Kept(ts) == ts

\* clearTimeout(lockTimerRef.current)
Cleared(ts) == ts \ {lockTimerRef}

\* handleSelectNote(id): a click on a note of the list
\* variant: selecting a note drops the index runs that are under way
handleSelectNote_CancelsRuns(id) ==
    /\ mounted /\ id \in DOMAIN notes
    /\ notes[id].is_encrypted \/ CanStartRun(notes[id])
    /\ decryptedCache' = EmptyMap
    /\ timers' = Cleared(timers)
    /\ selectedNoteId' = id
    /\ isCreating' = FALSE
    /\ isEditing' = FALSE
    /\ unlockPassword' = Empty
    /\ runs' = IF ~notes[id].is_encrypted
               THEN StartedRuns({}, notes[id], Empty,
                                TruthyKeys(attachmentTextCache),
                                DOMAIN attachmentImageCache)
               ELSE {}
    /\ UNCHANGED <<lockTimerRef, unlocks, mounted>>
    /\ UNCHANGED <<attachmentTextCache, attachmentImageCache, readers, indexed>>
    /\ UNCHANGED <<saveVars, viewVars, dbVars, cipherVars>>
    /\ lastAlert' = ""

handleSelectNote(id) ==
    /\ mounted /\ id \in DOMAIN notes
    /\ notes[id].is_encrypted \/ CanStartRun(notes[id])
    /\ decryptedCache' = EmptyMap
    /\ timers' = Cleared(timers)
    /\ selectedNoteId' = id
    /\ isCreating' = FALSE
    /\ isEditing' = FALSE
    /\ unlockPassword' = Empty
    /\ runs' = IF ~notes[id].is_encrypted
               THEN StartedRuns(runs, notes[id], Empty,
                                TruthyKeys(attachmentTextCache),
                                DOMAIN attachmentImageCache)
               ELSE runs
    /\ UNCHANGED <<lockTimerRef, unlocks, mounted>>
    /\ UNCHANGED <<attachmentTextCache, attachmentImageCache, readers, indexed>>
    /\ UNCHANGED <<saveVars, viewVars, dbVars, cipherVars>>
    /\ lastAlert' = ""

\* the access key field of the lock screen (App.tsx line 1458)
TypeUnlockPassword(p) ==
    /\ LockScreenShown
    /\ p # unlockPassword
    /\ unlockPassword' = p
    /\ UNCHANGED <<selectedNoteId, isEditing, isCreating, decryptedCache,
                   lockTimerRef, timers, unlocks, mounted>>
    /\ UNCHANGED <<indexVars, saveVars, viewVars, dbVars, cipherVars>>
    /\ lastAlert' = ""

UnlockIds == 1..MaxInflight

\* handleUnlock up to its await: the closure holds selectedNote, unlockPassword
\* and indexAttachments of the render in which the button was pressed
handleUnlockStart ==
    /\ LockScreenShown
    /\ Cardinality(unlocks) < MaxInflight
    /\ unlocks' = unlocks \cup
           {[uid |-> FreshId({u.uid : u \in unlocks}, UnlockIds),
             note |-> selectedNote,
             password |-> unlockPassword,
             textKeys |-> TruthyKeys(attachmentTextCache),
             imageKeys |-> DOMAIN attachmentImageCache]}
    /\ UNCHANGED <<selectedNoteId, isEditing, isCreating, unlockPassword,
                   decryptedCache, lockTimerRef, timers, mounted>>
    /\ UNCHANGED <<indexVars, saveVars, viewVars, dbVars, cipherVars>>
    /\ lastAlert' = ""

UnlockResult(u) == decryptData(u.note.content, u.note.iv, u.note.salt, u.password)

\* setDecryptedCache(prev => ({...prev, [selectedNote.id]: {title, content}}))
CacheAfterUnlock(cache, u, decContent) ==
    Put(cache, u.note.id, [title |-> u.note.title, content |-> decContent])

\* the timeouts pending after clearTimeout(lockTimerRef.current) and setTimeout
\* variant: handleUnlock clears the old timeout and schedules none
TimersAfterUnlock_NoneScheduled(ts, new) == Cleared(ts)

TimersAfterUnlock(ts, new) == Cleared(ts) \cup {new}

\* variant: the earlier timeout is not cleared before the new one is set
UnlockSucceeded_NoClear(u, decContent) ==
    /\ CanStartRun(u.note)
    /\ TimerIds \ (timers \cup {lockTimerRef}) # {}
    /\ decryptedCache' =
           IF mounted THEN CacheAfterUnlock(decryptedCache, u, decContent)
           ELSE decryptedCache
    /\ runs' = StartedRuns(runs, u.note, u.password, u.textKeys, u.imageKeys)
    /\ LET new == FreshId(timers \cup {lockTimerRef}, TimerIds)
       IN  /\ timers' = timers \cup {new}
           /\ lockTimerRef' = new
    /\ lastAlert' = ""

\* the try block of handleUnlock after decryptData has resolved; setTimeout
\* returns a handle that is neither pending nor the one just cleared
UnlockSucceeded(u, decContent) ==
    /\ CanStartRun(u.note)
    /\ TimerIds \ (timers \cup {lockTimerRef}) # {}
    /\ decryptedCache' =
           IF mounted THEN CacheAfterUnlock(decryptedCache, u, decContent)
           ELSE decryptedCache
    /\ runs' = StartedRuns(runs, u.note, u.password, u.textKeys, u.imageKeys)
    /\ LET new == FreshId(timers \cup {lockTimerRef}, TimerIds)
       IN  /\ timers' = TimersAfterUnlock(timers, new)
           /\ lockTimerRef' = new
    /\ lastAlert' = ""

\* variant: the timeout is cleared before the decryption is awaited
UnlockFailed_ClearsTimer ==
    /\ lastAlert' = "Invalid key."
    /\ timers' = Cleared(timers)
    /\ UNCHANGED <<decryptedCache, runs, lockTimerRef>>

\* catch (err) { alert("Invalid key."); }
UnlockFailed ==
    /\ lastAlert' = "Invalid key."
    /\ UNCHANGED <<decryptedCache, runs, timers, lockTimerRef>>

\* handleUnlock after decryptData has settled
handleUnlockDone(u) ==
    /\ u \in unlocks
    /\ unlocks' = unlocks \ {u}
    /\ LET res == UnlockResult(u)
       IN  IF res.ok THEN UnlockSucceeded(u, res.value) ELSE UnlockFailed
    /\ UNCHANGED <<selectedNoteId, isEditing, isCreating, unlockPassword, mounted>>
    /\ UNCHANGED <<attachmentTextCache, attachmentImageCache, readers, indexed>>
    /\ UNCHANGED <<saveVars, viewVars, dbVars, cipherVars>>

\* variant: the callback leaves edit mode on
LockTimerFires_KeepsEditing(t) ==
    /\ t \in timers
    /\ timers' = timers \ {t}
    /\ IF mounted
       THEN /\ decryptedCache' = EmptyMap
            /\ unlockPassword' = Empty
       ELSE UNCHANGED <<decryptedCache, unlockPassword>>
    /\ UNCHANGED <<selectedNoteId, isEditing, isCreating, lockTimerRef, unlocks, mounted>>
    /\ UNCHANGED <<indexVars, saveVars, viewVars, dbVars, cipherVars>>
    /\ lastAlert' = ""

\* the callback given to setTimeout(..., 60000) runs
\* variant: the timeout callback also empties the attachment preview caches
LockTimerFires_ClearsPreviews(t) ==
    /\ t \in timers
    /\ timers' = timers \ {t}
    /\ IF mounted
       THEN /\ decryptedCache' = EmptyMap
            /\ unlockPassword' = Empty
            /\ isEditing' = FALSE
            /\ attachmentTextCache' = EmptyMap
            /\ attachmentImageCache' = EmptyMap
       ELSE UNCHANGED <<decryptedCache, unlockPassword, isEditing,
                        attachmentTextCache, attachmentImageCache>>
    /\ UNCHANGED <<selectedNoteId, isCreating, lockTimerRef, unlocks, mounted>>
    /\ UNCHANGED <<runs, readers, indexed>>
    /\ UNCHANGED <<saveVars, viewVars, dbVars, cipherVars>>
    /\ lastAlert' = ""

LockTimerFires(t) ==
    /\ t \in timers
    /\ timers' = timers \ {t}
    /\ IF mounted
       THEN /\ decryptedCache' = EmptyMap
            /\ unlockPassword' = Empty
            /\ isEditing' = FALSE
       ELSE UNCHANGED <<decryptedCache, unlockPassword, isEditing>>
    /\ UNCHANGED <<selectedNoteId, isCreating, lockTimerRef, unlocks, mounted>>
    /\ UNCHANGED <<indexVars, saveVars, viewVars, dbVars, cipherVars>>
    /\ lastAlert' = ""

\* the cleanup of the mount effect
Unmount ==
    /\ mounted
    /\ mounted' = FALSE
    /\ timers' = Cleared(timers)
    /\ UNCHANGED <<selectedNoteId, isEditing, isCreating, unlockPassword,
                   decryptedCache, lockTimerRef, unlocks>>
    /\ UNCHANGED <<indexVars, saveVars, viewVars, dbVars, cipherVars>>
    /\ lastAlert' = ""

(***************************************************************************)
(* Navigation (App.tsx lines 1252, 1341, 1473, 1619, 1633, 1634)           *)
(***************************************************************************)
NewNoteClick ==
    /\ mounted /\ ~isCreating
    /\ isCreating' = TRUE
    /\ selectedNoteId' = 0
    /\ existingAttachments' = <<>>
    /\ UNCHANGED <<isEditing, unlockPassword, decryptedCache, lockTimerRef, timers,
                   unlocks, mounted>>
    /\ UNCHANGED <<dbNotes, store, notes, fetching, isUploading, saving, wire, saved>>
    /\ UNCHANGED <<indexVars, viewVars, dbVars, cipherVars>>
    /\ lastAlert' = ""

\* a variant of EditClick that restarts the auto-lock countdown
EditClick_RearmsTimer ==
    /\ NoteViewShown
    /\ isEditing' = TRUE
    /\ existingAttachments' = selectedNote.attachments
    /\ IF lockTimerRef \in timers /\ TimerIds \ (timers \cup {lockTimerRef}) # {}
       THEN /\ lockTimerRef' = FreshId(timers \cup {lockTimerRef}, TimerIds)
            /\ timers' = (timers \ {lockTimerRef}) \cup {lockTimerRef'}
       ELSE UNCHANGED <<lockTimerRef, timers>>
    /\ UNCHANGED <<selectedNoteId, isCreating, unlockPassword, decryptedCache,
                   unlocks, mounted>>
    /\ UNCHANGED <<dbNotes, store, notes, fetching, isUploading, saving, wire, saved>>
    /\ UNCHANGED <<indexVars, viewVars, dbVars, cipherVars>>
    /\ lastAlert' = ""

EditClick ==
    /\ NoteViewShown
    /\ isEditing' = TRUE
    /\ existingAttachments' = selectedNote.attachments
    /\ UNCHANGED <<selectedNoteId, isCreating, unlockPassword, decryptedCache,
                   lockTimerRef, timers, unlocks, mounted>>
    /\ UNCHANGED <<dbNotes, store, notes, fetching, isUploading, saving, wire, saved>>
    /\ UNCHANGED <<indexVars, viewVars, dbVars, cipherVars>>
    /\ lastAlert' = ""

BackClick ==
    /\ NoteViewShown
    /\ selectedNoteId' = 0
    /\ UNCHANGED <<isEditing, isCreating, unlockPassword, decryptedCache,
                   lockTimerRef, timers, unlocks, mounted>>
    /\ UNCHANGED <<indexVars, saveVars, viewVars, dbVars, cipherVars>>
    /\ lastAlert' = ""

(***************************************************************************)
(* Saving (App.tsx lines 729-807)                                          *)
(***************************************************************************)
\* variant: the files are uploaded as they are
UploadedBlobs_Raw(files, isEncrypted, password, salt, iv) ==
    [i \in 1..Len(files) |-> files[i].data]

\* processFileUploads(files, isEncrypted, password): what is handed to
\* db.uploadFile for each file, in order
UploadedBlobs(files, isEncrypted, password, salt, iv) ==
    [i \in 1..Len(files) |->
        IF isEncrypted /\ password # Empty
        THEN encryptFile(files[i].data, password, salt, iv)
        ELSE files[i].data]

\* the paths db.uploadFile returns for them
UploadedPaths(files, base) ==
    [i \in 1..Len(files) |-> uploadPath(base + i, files[i].ext)]

StoreAfterUploads(st, files, blobs, base) ==
    [q \in (DOMAIN st) \cup {uploadPath(base + i, files[i].ext) : i \in 1..Len(files)} |->
        IF q \in DOMAIN st THEN st[q]
        ELSE blobs[CHOOSE i \in 1..Len(files) : uploadPath(base + i, files[i].ext) = q]]

\* the payload handleSaveNewNote / handleUpdateNote builds
SavePayload(req, paths, salt, iv) ==
    IF req.is_encrypted
    THEN LET contentEnc == encryptData(req.content, req.password, NoSalt, salt, iv)
         IN  [title |-> req.title, content |-> contentEnc.ciphertext,
              is_encrypted |-> TRUE, iv |-> contentEnc.iv, salt |-> contentEnc.salt,
              attachments |-> req.existing \o paths]
    ELSE [title |-> req.title, content |-> req.content,
          is_encrypted |-> FALSE, iv |-> Empty, salt |-> Empty,
          attachments |-> req.existing \o paths]

NextNoteId == Cardinality(DOMAIN saved) + 1
Uploaded == Cardinality(DOMAIN store)

\* handleSaveNewNote up to setIsUploading(true): the validation
handleSaveNewNoteStart(title, content, encrypt, password, confirmPassword, files) ==
    /\ mounted /\ isCreating /\ ~isUploading
    /\ NextNoteId \in NoteIds
    /\ Uploaded + Len(files) <= MaxUploads
    /\ IF title = ""
       THEN /\ lastAlert' = "Title required"
            /\ UNCHANGED <<isUploading, saving>>
       ELSE IF encrypt /\ password = Empty
       THEN /\ lastAlert' = "Password required for encryption"
            /\ UNCHANGED <<isUploading, saving>>
       ELSE IF encrypt /\ password # confirmPassword
       THEN /\ lastAlert' = "Passwords do not match!"
            /\ UNCHANGED <<isUploading, saving>>
       ELSE /\ isUploading' = TRUE
            /\ saving' = [kind |-> "new", id |-> 0, title |-> title, content |-> content,
                          is_encrypted |-> encrypt, password |-> password,
                          files |-> files, existing |-> <<>>]
            /\ lastAlert' = ""
    /\ UNCHANGED <<selectedNoteId, isEditing, isCreating, unlockPassword, decryptedCache,
                   lockTimerRef, timers, unlocks, mounted>>
    /\ UNCHANGED <<dbNotes, store, notes, fetching, existingAttachments, wire, saved>>
    /\ UNCHANGED <<indexVars, viewVars, dbVars, cipherVars>>

\* handleUpdateNote up to setIsUploading(true)
\* variant: handleUpdateNote without its password check
handleUpdateNoteStart_NoValidation(content, encrypt, password, files) ==
    /\ EditFormShown /\ ~isUploading
    /\ Uploaded + Len(files) <= MaxUploads
    /\ isUploading' = TRUE
    /\ saving' = [kind |-> "update", id |-> selectedNoteId,
                  title |-> selectedNote.title, content |-> content,
                  is_encrypted |-> encrypt,
                  password |-> OrElse(password, unlockPassword),
                  files |-> files, existing |-> existingAttachments]
    /\ lastAlert' = ""
    /\ UNCHANGED <<selectedNoteId, isEditing, isCreating, unlockPassword, decryptedCache,
                   lockTimerRef, timers, unlocks, mounted>>
    /\ UNCHANGED <<dbNotes, store, notes, fetching, existingAttachments, wire, saved>>
    /\ UNCHANGED <<indexVars, viewVars, dbVars, cipherVars>>

handleUpdateNoteStart(content, encrypt, password, files) ==
    /\ EditFormShown /\ ~isUploading
    /\ Uploaded + Len(files) <= MaxUploads
    /\ LET pwd == OrElse(password, unlockPassword)
       IN  IF encrypt /\ pwd = Empty
           THEN /\ lastAlert' = "Password required to save encrypted note"
                /\ UNCHANGED <<isUploading, saving>>
           ELSE /\ isUploading' = TRUE
                /\ saving' = [kind |-> "update", id |-> selectedNoteId,
                              title |-> selectedNote.title, content |-> content,
                              is_encrypted |-> encrypt, password |-> pwd,
                              files |-> files, existing |-> existingAttachments]
                /\ lastAlert' = ""
    /\ UNCHANGED <<selectedNoteId, isEditing, isCreating, unlockPassword, decryptedCache,
                   lockTimerRef, timers, unlocks, mounted>>
    /\ UNCHANGED <<dbNotes, store, notes, fetching, existingAttachments, wire, saved>>
    /\ UNCHANGED <<indexVars, viewVars, dbVars, cipherVars>>

\* the rest of the save handler: uploads, encryption, insert or update, the
\* state resets and fetchNotes()
SaveDone(salt, iv) ==
    /\ saving # None
    /\ LET req == saving
           blobs == UploadedBlobs(req.files, req.is_encrypted, req.password, salt, iv)
           paths == UploadedPaths(req.files, Uploaded)
           payload == SavePayload(req, paths, salt, iv)
           id == IF req.kind = "new" THEN NextNoteId ELSE req.id
       IN  /\ store' = StoreAfterUploads(store, req.files, blobs, Uploaded)
           /\ dbNotes' = IF req.kind = "new" THEN insertNote(dbNotes, id, payload)
                         ELSE updateNote(dbNotes, id, payload)
           /\ wire' = [req |-> req, uploads |-> blobs, record |-> payload]
           /\ saved' = Put(saved, id, [content |-> req.content,
                                       is_encrypted |-> req.is_encrypted,
                                       password |-> req.password,
                                       files |-> req.files])
           /\ IF mounted
              THEN /\ isCreating' = IF req.kind = "new" THEN FALSE ELSE isCreating
                   /\ isEditing' = IF req.kind = "update" THEN FALSE ELSE isEditing
                   /\ isUploading' = FALSE
                   /\ fetching' = TRUE
              ELSE UNCHANGED <<isCreating, isEditing, isUploading, fetching>>
    /\ saving' = None
    /\ UNCHANGED <<selectedNoteId, unlockPassword, decryptedCache, lockTimerRef, timers,
                   unlocks, mounted>>
    /\ UNCHANGED <<notes, existingAttachments>>
    /\ UNCHANGED <<indexVars, viewVars, dbVars, cipherVars>>
    /\ lastAlert' = ""

\* fetchNotes(): db.getNotes() answers and setNotes runs
FetchNotesDone ==
    /\ fetching
    /\ fetching' = FALSE
    /\ notes' = IF mounted THEN getNotes(dbNotes) ELSE notes
    /\ UNCHANGED <<dbNotes, store, existingAttachments, isUploading, saving, wire, saved>>
    /\ UNCHANGED <<sessionVars, indexVars, viewVars, dbVars, cipherVars>>
    /\ lastAlert' = ""

\* the delete button of the note view: db.deleteNote(id).then(...)
DeleteClick ==
    /\ NoteViewShown
    /\ selectedNoteId \in DOMAIN dbNotes
    /\ dbNotes' = Remove(dbNotes, selectedNoteId)
    /\ selectedNoteId' = 0
    /\ fetching' = TRUE
    /\ UNCHANGED <<isEditing, isCreating, unlockPassword, decryptedCache,
                   lockTimerRef, timers, unlocks, mounted>>
    /\ UNCHANGED <<store, notes, existingAttachments, isUploading, saving, wire, saved>>
    /\ UNCHANGED <<indexVars, viewVars, dbVars, cipherVars>>
    /\ lastAlert' = ""

(***************************************************************************)
(* Attachment preview and download (App.tsx lines 809-852)                 *)
(***************************************************************************)
Range(seq) == {seq[i] : i \in 1..Len(seq)}

\* the attachments whose Preview and Download buttons are rendered
ShownAttachments ==
    IF NoteViewShown THEN Range(selectedNote.attachments)
    ELSE IF EditFormShown THEN Range(existingAttachments)
    ELSE {}

\* the blob both handlers end up with, or the alert they show instead
ViewBlob(primary, keyAlert, failAlert) ==
    LET blob == downloadFile(primary, [ok |-> FALSE, error |-> [message |-> ObjectNotFound]])
    IN  IF ~blob.ok THEN [ok |-> FALSE, alert |-> failAlert]
        ELSE IF ~selectedNote.is_encrypted THEN Ok(blob.value)
        ELSE IF unlockPassword = Empty THEN [ok |-> FALSE, alert |-> keyAlert]
        ELSE LET decrypted == decryptFile(blob.value, unlockPassword)
             IN  IF decrypted.ok THEN Ok(decrypted.value)
                 ELSE [ok |-> FALSE, alert |-> failAlert]

\* handleOpenPreview(path)
handleOpenPreview(path, primary) ==
    /\ path \in ShownAttachments
    /\ LET res == ViewBlob(primary, "Vault key required to decrypt preview.",
                           "Preview failed")
       IN  IF res.ok
           THEN /\ previewData' =
                       [name |-> path, data |-> res.value,
                        text |-> IF isTextFile(path.ext) THEN TextDecode(res.value)
                                 ELSE Empty]
                /\ lastAlert' = ""
           ELSE /\ UNCHANGED previewData
                /\ lastAlert' = res.alert
    /\ UNCHANGED downloadedFile
    /\ UNCHANGED <<sessionVars, indexVars, saveVars, dbVars, cipherVars>>

\* closePreview()
closePreview ==
    /\ mounted /\ previewData # None
    /\ previewData' = None
    /\ UNCHANGED downloadedFile
    /\ UNCHANGED <<sessionVars, indexVars, saveVars, dbVars, cipherVars>>
    /\ lastAlert' = ""

\* handleDownloadAttachment(path)
handleDownloadAttachment(path, primary) ==
    /\ path \in ShownAttachments
    /\ LET res == ViewBlob(primary, "Vault key required to decrypt file.",
                           "Failed to download")
       IN  IF res.ok
           THEN /\ downloadedFile' = [name |-> path, data |-> res.value]
                /\ lastAlert' = ""
           ELSE /\ UNCHANGED downloadedFile
                /\ lastAlert' = res.alert
    /\ UNCHANGED previewData
    /\ UNCHANGED <<sessionVars, indexVars, saveVars, dbVars, cipherVars>>

(***************************************************************************)
(* The remote store changes a stored ciphertext                            *)
(***************************************************************************)
\* the bits of an ASCII character
CharBits == 0..6

RECURSIVE Pow2(_)
Pow2(b) == IF b = 0 THEN 1 ELSE 2 * Pow2(b - 1)

FlipBit(c, b) == IF (c \div Pow2(b)) % 2 = 1 THEN c - Pow2(b) ELSE c + Pow2(b)

\* one bit of character i of the hex ciphertext of row id is flipped, once
TamperStored(id, i, b) ==
    /\ id \in DOMAIN dbNotes
    /\ dbNotes[id].is_encrypted
    /\ wire # None /\ dbNotes[id].ciphertext = wire.record.content
    /\ i \in 1..Len(dbNotes[id].ciphertext)
    /\ dbNotes' = [dbNotes EXCEPT ![id].ciphertext[i] = FlipBit(@, b)]
    /\ UNCHANGED <<store, notes, fetching, existingAttachments, isUploading, saving,
                   wire, saved>>
    /\ UNCHANGED <<sessionVars, indexVars, viewVars, dbVars, cipherVars>>
    /\ lastAlert' = ""

(***************************************************************************)
(* The cipher functions on their own                                       *)
(***************************************************************************)
\* 'a', e-acute, the byte order mark, and the two halves of U+1F600
CodeUnits == {97, 233, 65279, 55357, 56832}
CipherTexts == SeqsUpTo(CodeUnits, MaxLen)
\* file contents
Bytes == {0, 97, 255}
CipherBuffers == SeqsUpTo(Bytes, MaxLen)
\* passwords: 'p', 'q', a lone high surrogate and U+FFFD
CipherPasswords == Passwords \cup {<<55357>>, <<65533>>}

IsTextPayload(payload) == "ciphertext" \in DOMAIN payload
IsFilePayload(payload) == "blob" \in DOMAIN payload

CipherEncrypt(providedSalt) ==
    /\ cPayload = None
    /\ cText \in CipherTexts
    /\ cPayload' = encryptData(cText, cPwd, providedSalt, cSalt, cIv)
    /\ UNCHANGED <<cText, cPwd, cSalt, cIv, cTry, cOut>>
    /\ UNCHANGED <<sessionVars, indexVars, saveVars, viewVars, dbVars>>
    /\ lastAlert' = ""

CipherDecrypt(password) ==
    /\ IsTextPayload(cPayload) /\ cOut = None
    /\ cTry' = password
    /\ cOut' = decryptData(cPayload.ciphertext, cPayload.iv, cPayload.salt, password)
    /\ UNCHANGED <<cText, cPwd, cSalt, cIv, cPayload>>
    /\ UNCHANGED <<sessionVars, indexVars, saveVars, viewVars, dbVars>>
    /\ lastAlert' = ""

CipherEncryptFile ==
    /\ cPayload = None
    /\ cText \in CipherBuffers
    /\ cPayload' = [blob |-> encryptFile(cText, cPwd, cSalt, cIv)]
    /\ UNCHANGED <<cText, cPwd, cSalt, cIv, cTry, cOut>>
    /\ UNCHANGED <<sessionVars, indexVars, saveVars, viewVars, dbVars>>
    /\ lastAlert' = ""

CipherDecryptFile(password) ==
    /\ IsFilePayload(cPayload) /\ cOut = None
    /\ cTry' = password
    /\ cOut' = decryptFile(cPayload.blob, password)
    /\ UNCHANGED <<cText, cPwd, cSalt, cIv, cPayload>>
    /\ UNCHANGED <<sessionVars, indexVars, saveVars, viewVars, dbVars>>
    /\ lastAlert' = ""

(***************************************************************************)
(* Specifications                                                          *)
(***************************************************************************)
Paths == {uploadPath(n, e) : n \in 1..MaxUploads, e \in {"txt", "png"}}

AppInit ==
    /\ mounted = TRUE
    /\ dbNotes = EmptyMap /\ store = EmptyMap /\ notes = EmptyMap
    /\ fetching = FALSE
    /\ selectedNoteId = 0
    /\ isEditing = FALSE /\ isCreating = FALSE
    /\ unlockPassword = Empty
    /\ decryptedCache = EmptyMap
    /\ attachmentTextCache = EmptyMap /\ attachmentImageCache = EmptyMap
    /\ lockTimerRef = 0 /\ timers = {}
    /\ existingAttachments = <<>>
    /\ isUploading = FALSE /\ saving = None
    /\ unlocks = {} /\ runs = {} /\ readers = {}
    /\ lastAlert = ""
    /\ wire = None
    /\ saved = EmptyMap
    /\ indexed = [q \in Paths |-> 0]
    /\ previewData = None /\ downloadedFile = None

CipherIdle ==
    /\ cText = Empty /\ cPwd = Empty /\ cSalt = <<>> /\ cIv = <<>>
    /\ cPayload = None /\ cTry = Empty /\ cOut = None

DownloadIdle ==
    /\ dPrimary = None /\ dLegacy = None /\ dCalls = <<>> /\ dOut = None

Init == AppInit /\ CipherIdle /\ DownloadIdle

\* what the user types into the forms
TypedPasswords == Passwords \cup {Empty}

\* the vault session over notes without attachments, every interleaving
Next ==
    \/ NewNoteClick
    \/ \E title \in {"", Title}, password \in TypedPasswords,
          confirmPassword \in TypedPasswords :
            handleSaveNewNoteStart(title, <<97>>, TRUE, password, confirmPassword, <<>>)
    \/ \E salt \in AppSalts, iv \in AppIvs : SaveDone(salt, iv)
    \/ FetchNotesDone
    \/ \E id \in NoteIds : handleSelectNote(id)
    \/ \E p \in TypedPasswords : TypeUnlockPassword(p)
    \/ handleUnlockStart
    \/ \E u \in unlocks : handleUnlockDone(u)
    \/ \E t \in timers : LockTimerFires(t)
    \/ EditClick

Spec == Init /\ [][Next]_vars

\* the timer callback runs once its delay has passed
LiveSpec == Spec /\ WF_vars(\E t \in timers : LockTimerFires(t))

\* one handleUnlock at a time (the user waits for the answer)
SequentialUnlock == unlocks = {} /\ handleUnlockStart

\* navigation: the session with the Back and delete buttons
NavNext ==
    \/ NewNoteClick
    \/ handleSaveNewNoteStart(Title, <<97>>, TRUE, <<112>>, <<112>>, <<>>)
    \/ \E salt \in AppSalts, iv \in AppIvs : SaveDone(salt, iv)
    \/ FetchNotesDone
    \/ \E id \in NoteIds : handleSelectNote(id)
    \/ TypeUnlockPassword(<<112>>)
    \/ SequentialUnlock
    \/ \E u \in unlocks : handleUnlockDone(u)
    \/ \E t \in timers : LockTimerFires(t)
    \/ EditClick
    \/ BackClick
    \/ DeleteClick

NavSpec == Init /\ [][NavNext]_vars

\* the attachment indexer: a note with a text and an image attachment
IndexNext ==
    \/ NewNoteClick
    \/ \E encrypt \in BOOLEAN : \E files \in {<<FileTxt, FilePng>>, <<FilePng, FileTxt>>} :
            handleSaveNewNoteStart(Title, <<97>>, encrypt, <<112>>, <<112>>, files)
    \/ \E salt \in AppSalts, iv \in AppIvs : SaveDone(salt, iv)
    \/ FetchNotesDone
    \/ \E id \in NoteIds : handleSelectNote(id)
    \/ TypeUnlockPassword(<<112>>)
    \/ SequentialUnlock
    \/ \E u \in unlocks : handleUnlockDone(u)
    \/ \E t \in timers : LockTimerFires(t)
    \/ \E r \in runs : \E primary \in PrimaryAnswers(RunPath(r)) : IndexFetched(r, primary)
    \/ \E rd \in readers : ReaderLoadEnd(rd)

IndexSpec == Init /\ [][IndexNext]_vars

\* nothing is in flight: the user waits for each handler to finish
Idle == saving = None /\ ~fetching /\ unlocks = {}

\* saving: one note without attachments, created and then edited, the handlers
\* one after another
SaveNext ==
    \/ NewNoteClick
    \/ \E title \in {"", Title}, content \in Texts, encrypt \in BOOLEAN,
          password \in TypedPasswords, confirmPassword \in TypedPasswords :
            /\ saved = EmptyMap
            /\ handleSaveNewNoteStart(title, content, encrypt, password, confirmPassword, <<>>)
    \/ \E content \in Texts, encrypt \in BOOLEAN, password \in TypedPasswords :
            handleUpdateNoteStart(content, encrypt, password, <<>>)
    \/ \E salt \in AppSalts, iv \in AppIvs : SaveDone(salt, iv)
    \/ FetchNotesDone
    \/ \E id \in NoteIds : Idle /\ handleSelectNote(id)
    \/ \E p \in TypedPasswords : Idle /\ TypeUnlockPassword(p)
    \/ Idle /\ handleUnlockStart
    \/ \E u \in unlocks : handleUnlockDone(u)
    \/ Idle /\ EditClick

SaveSpec == Init /\ [][SaveNext]_vars

\* nothing is in flight and the indexer has finished
Quiet == Idle /\ runs = {}

\* uploading: one note whose attachments are added when it is created and
\* when it is edited, the handlers one after another
UploadNext ==
    \/ Quiet /\ NewNoteClick
    \/ \E encrypt \in BOOLEAN, files \in {<<>>, <<FileTxt>>} :
            /\ saved = EmptyMap
            /\ handleSaveNewNoteStart(Title, <<97>>, encrypt, <<112>>, <<112>>, files)
    \/ \E encrypt \in BOOLEAN, password \in {Empty, <<113>>}, files \in {<<>>, <<FileTxt>>} :
            handleUpdateNoteStart(<<98>>, encrypt, password, files)
    \/ \E salt \in AppSalts, iv \in AppIvs : SaveDone(salt, iv)
    \/ FetchNotesDone
    \/ \E id \in NoteIds : Quiet /\ handleSelectNote(id)
    \/ Quiet /\ TypeUnlockPassword(<<112>>)
    \/ Quiet /\ handleUnlockStart
    \/ \E u \in unlocks : handleUnlockDone(u)
    \/ Quiet /\ EditClick
    \/ \E r \in runs : \E primary \in PrimaryAnswers(RunPath(r)) : IndexFetched(r, primary)

UploadSpec == Init /\ [][UploadNext]_vars

\* unlocking: an encrypted note with an attachment, unlock attempts that
\* overlap, while the downloads of the index runs are outstanding
UnlockNext ==
    \/ NewNoteClick
    \/ handleSaveNewNoteStart(Title, <<97>>, TRUE, <<112>>, <<112>>, <<FileTxt>>)
    \/ \E salt \in AppSalts, iv \in AppIvs : SaveDone(salt, iv)
    \/ FetchNotesDone
    \/ \E id \in NoteIds : handleSelectNote(id)
    \/ \E p \in TypedPasswords : TypeUnlockPassword(p)
    \/ handleUnlockStart
    \/ \E u \in unlocks : handleUnlockDone(u)
    \/ \E t \in timers : LockTimerFires(t)

UnlockSpec == Init /\ [][UnlockNext]_vars

\* tampering: an encrypted note whose stored ciphertext is changed before
\* the application fetches it
TamperNext ==
    \/ NewNoteClick
    \/ saved = EmptyMap /\ handleSaveNewNoteStart(Title, <<97>>, TRUE, <<112>>, <<112>>, <<>>)
    \/ \E salt \in AppSalts, iv \in AppIvs : SaveDone(salt, iv)
    \/ \E id \in NoteIds, b \in CharBits :
            \E i \in 1..2 * (MaxLen + TagLen) : fetching /\ TamperStored(id, i, b)
    \/ FetchNotesDone
    \/ \E id \in NoteIds : handleSelectNote(id)
    \/ \E p \in Passwords : TypeUnlockPassword(p)
    \/ SequentialUnlock
    \/ \E u \in unlocks : handleUnlockDone(u)
    \/ \E t \in timers : LockTimerFires(t)

TamperSpec == Init /\ [][TamperNext]_vars

\* indexAttachments(note, password) called on a saved note, with and without
\* a password
indexAttachments(note, password) ==
    /\ mounted /\ CanStartRun(note)
    /\ runs' = StartedRuns(runs, note, password, TruthyKeys(attachmentTextCache),
                           DOMAIN attachmentImageCache)
    /\ UNCHANGED <<attachmentTextCache, attachmentImageCache, readers, indexed>>
    /\ UNCHANGED <<sessionVars, saveVars, viewVars, dbVars, cipherVars>>
    /\ lastAlert' = ""

IndexCallNext ==
    \/ NewNoteClick
    \/ \E encrypt \in BOOLEAN :
            handleSaveNewNoteStart(Title, <<97>>, encrypt, <<112>>, <<112>>,
                                   <<FileTxt, FilePng>>)
    \/ \E salt \in AppSalts, iv \in AppIvs : SaveDone(salt, iv)
    \/ FetchNotesDone
    \/ \E id \in DOMAIN notes : \E password \in {Empty, <<112>>, <<113>>} :
            indexAttachments(notes[id], password)
    \/ \E r \in runs : \E primary \in PrimaryAnswers(RunPath(r)) : IndexFetched(r, primary)
    \/ \E rd \in readers : ReaderLoadEnd(rd)

IndexCallSpec == Init /\ [][IndexCallNext]_vars

\* index runs that outlive their note: an encrypted note with attachments and a
\* note without, so that the selection can move on and the session can lock
\* while the downloads of a run are outstanding; one run at a time, its
\* FileReaders overlapping the next run
StaleIndexNext ==
    \/ Quiet /\ timers = {} /\ NextNoteId \in NoteIds /\ NewNoteClick
    \/ handleSaveNewNoteStart(Title, <<97>>, TRUE, <<112>>, <<112>>,
                              IF Uploaded = 0 THEN <<FilePng, FileTxt>> ELSE <<>>)
    \/ \E salt \in AppSalts, iv \in AppIvs : SaveDone(salt, iv)
    \/ FetchNotesDone
    \/ \E id \in NoteIds : handleSelectNote(id)
    \/ TypeUnlockPassword(<<112>>)
    \/ runs = {} /\ SequentialUnlock
    \/ \E u \in unlocks : handleUnlockDone(u)
    \/ \E t \in timers : LockTimerFires(t)
    \/ \E r \in runs : \E primary \in PrimaryAnswers(RunPath(r)) : IndexFetched(r, primary)
    \/ \E rd \in readers : ReaderLoadEnd(rd)

StaleIndexSpec == Init /\ [][StaleIndexNext]_vars

\* every download of a run gets its answer and every FileReader finishes
RunResponds(rid) ==
    \E r \in runs : r.rid = rid
        /\ \E primary \in PrimaryAnswers(RunPath(r)) : IndexFetched(r, primary)

ReaderResponds(rid) == \E rd \in readers : rd.rid = rid /\ ReaderLoadEnd(rd)

StaleIndexLiveSpec ==
    /\ StaleIndexSpec
    /\ \A rid \in RunIds : WF_vars(RunResponds(rid)) /\ WF_vars(ReaderResponds(rid))

\* the life of the attachment preview caches: an encrypted note with an image
\* and a text attachment is unlocked (with the right and a wrong key), indexed,
\* edited, saved, selected again and locked by the timeout
PreviewCacheNext ==
    \/ saved = EmptyMap /\ NewNoteClick
    \/ handleSaveNewNoteStart(Title, <<97>>, TRUE, <<112>>, <<112>>, <<FilePng, FileTxt>>)
    \/ \E salt \in AppSalts, iv \in AppIvs : SaveDone(salt, iv)
    \/ FetchNotesDone
    \/ \E id \in NoteIds : handleSelectNote(id)
    \/ \E p \in Passwords : TypeUnlockPassword(p)
    \/ runs = {} /\ SequentialUnlock
    \/ \E u \in unlocks : handleUnlockDone(u)
    \/ \E t \in timers : LockTimerFires(t)
    \/ EditClick
    \/ handleUpdateNoteStart(<<98>>, TRUE, <<112>>, <<>>)
    \/ \E r \in runs : \E primary \in PrimaryAnswers(RunPath(r)) : IndexFetched(r, primary)
    \/ \E rd \in readers : ReaderLoadEnd(rd)

PreviewCacheSpec == Init /\ [][PreviewCacheNext]_vars

\* the vault session of UnlockSpec with the component torn down at any moment
TeardownNext ==
    \/ UnlockNext
    \/ Unmount

TeardownSpec == Init /\ [][TeardownNext]_vars

\* the preview is a full-screen overlay: while it is open the user can only
\* close it, and what is already in flight still completes
PreviewClosed == previewData = None

\* activity while unlocked: an encrypted note with an attachment is read,
\* edited, saved, previewed and downloaded while unlock attempts overlap
ActivityNext ==
    \/ PreviewClosed /\ NewNoteClick
    \/ PreviewClosed /\ saved = EmptyMap
          /\ handleSaveNewNoteStart(Title, <<97>>, TRUE, <<112>>, <<112>>, <<FileTxt>>)
    \/ \E salt \in AppSalts, iv \in AppIvs : SaveDone(salt, iv)
    \/ FetchNotesDone
    \/ PreviewClosed /\ \E id \in NoteIds : handleSelectNote(id)
    \/ PreviewClosed /\ \E p \in Passwords : TypeUnlockPassword(p)
    \/ PreviewClosed /\ handleUnlockStart
    \/ \E u \in unlocks : handleUnlockDone(u)
    \/ \E t \in timers : LockTimerFires(t)
    \/ PreviewClosed /\ EditClick
    \/ PreviewClosed /\ handleUpdateNoteStart(<<98>>, TRUE, <<112>>, <<>>)
    \/ PreviewClosed /\ \E path \in Paths : \E primary \in PrimaryAnswers(path) :
            handleOpenPreview(path, primary)
    \/ PreviewClosed /\ \E path \in Paths : \E primary \in PrimaryAnswers(path) :
            handleDownloadAttachment(path, primary)
    \/ closePreview

ActivitySpec == Init /\ [][ActivityNext]_vars

(***************************************************************************)
(* Search (App.tsx lines 656-692)                                          *)
(***************************************************************************)
\* toLowerCase()
ToLowerCase(t) == [i \in 1..Len(t) |-> IF t[i] >= 65 /\ t[i] <= 90 THEN t[i] + 32 ELSE t[i]]

\* the characters of the one title and of the file extensions the model has
TitleChars(title) == IF title = Title THEN <<84>> ELSE Empty
ExtChars(ext) == IF ext = "txt" THEN <<116, 120, 116>> ELSE <<112, 110, 103>>

\* getFileNameFromPath(path): the timestamp, "_", the file name
getFileNameFromPath(path) == <<48 + path.n, 95, 102, 46>> \o ExtChars(path.ext)

\* the search box
Queries == {Empty, <<97>>, <<98>>, <<104>>, <<72>>, <<116>>, <<122>>}

\* the filter of filteredNotes for one note
MatchesQuery(n, searchQuery, cache, textCache) ==
    LET query == ToLowerCase(searchQuery)
        cachedTitle == IF n.id \in DOMAIN cache THEN TitleChars(cache[n.id].title)
                       ELSE Empty
        cachedContent == IF n.id \in DOMAIN cache THEN cache[n.id].content ELSE Empty
        title == ToLowerCase(OrElse(cachedTitle, TitleChars(n.title)))
        content == ToLowerCase(OrElse(cachedContent,
                                      IF n.is_encrypted THEN Empty ELSE n.content))
        inTitleOrContent == Includes(title, query) \/ Includes(content, query)
        inFilenames ==
            \E i \in 1..Len(n.attachments) :
                Includes(ToLowerCase(getFileNameFromPath(n.attachments[i])), query)
        inAttachmentContent ==
            \E i \in 1..Len(n.attachments) :
                /\ n.attachments[i] \in DOMAIN textCache
                /\ Includes(ToLowerCase(textCache[n.attachments[i]]), query)
    IN  query = Empty \/ inTitleOrContent \/ inFilenames \/ inAttachmentContent

\* filteredNotes with the category "all" and the sort by date: the ids of the
\* notes listed (their order is that of the ids)
filteredNotes(searchQuery, cache, textCache) ==
    {id \in DOMAIN notes : MatchesQuery(notes[id], searchQuery, cache, textCache)}

(***************************************************************************)
(* db.downloadFile on its own                                              *)
(***************************************************************************)
DownloadBlobs == {<<>>, <<104>>, <<137>>, <<1, 2>>}
DownloadMessages ==
    {ObjectNotFound, FailedToFetch, <<"Bucket", "not", "found">>,
     <<"Error:", "Object", "not", "found">>, <<"object", "not", "found">>}

\* what a bucket can answer to download(path)
DownloadAnswers ==
    {[ok |-> TRUE, value |-> b] : b \in DownloadBlobs}
        \cup {[ok |-> FALSE, error |-> [message |-> m]] : m \in DownloadMessages}

DownloadInit ==
    /\ AppInit /\ CipherIdle
    /\ dPrimary \in DownloadAnswers /\ dLegacy \in DownloadAnswers
    /\ dCalls = <<>> /\ dOut = None

\* db.downloadFile(path): what it returns or throws, and the buckets it asked
dbDownloadFile ==
    /\ dOut = None
    /\ dOut' = downloadFile(dPrimary, dLegacy)
    /\ dCalls' = downloadCalls(dPrimary)
    /\ UNCHANGED <<dPrimary, dLegacy>>
    /\ UNCHANGED <<sessionVars, indexVars, saveVars, viewVars, cipherVars, lastAlert>>

DownloadNext == dbDownloadFile

DownloadSpec == DownloadInit /\ [][DownloadNext]_vars

CipherInit ==
    /\ AppInit /\ DownloadIdle
    /\ cText \in CipherTexts \cup CipherBuffers /\ cPwd \in CipherPasswords
    /\ cSalt \in Salts /\ cIv \in Ivs
    /\ cPayload = None /\ cTry = Empty /\ cOut = None

CipherNext ==
    \/ \E providedSalt \in {NoSalt, toHex(cSalt)} : CipherEncrypt(providedSalt)
    \/ \E password \in CipherPasswords : CipherDecrypt(password)
    \/ CipherEncryptFile
    \/ \E password \in CipherPasswords : CipherDecryptFile(password)

CipherSpec == CipherInit /\ [][CipherNext]_vars

(***************************************************************************)
(* The vault session                                                       *)
(***************************************************************************)
\* C1: whatever the interleaving of unlock and select calls, the decrypted
\* cache holds the plaintext of at most one note id
C1_AtMostOneNoteCached == Cardinality(DOMAIN decryptedCache) <= 1

Locked == decryptedCache = EmptyMap /\ unlockPassword = Empty /\ ~isEditing

\* C3: once an unlock has scheduled the auto-lock timeout, the session gets
\* locked: the callback runs unless a select or a new unlock cancels it first,
\* and when it runs the cache is empty, unlockPassword is cleared and edit
\* mode is off
C3_AutoLock ==
    /\ (timers # {}) ~> Locked
    /\ [][\A t \in TimerIds : LockTimerFires(t) => Locked']_vars

\* a note is unlocked and being edited while the timeout is pending
C3_Witness ==
    /\ selectedNoteId \in DOMAIN decryptedCache
    /\ lockTimerRef \in timers
    /\ isEditing

\* C4: when the decryption of handleUnlock succeeds, the cache holds under
\* the note's id the decryption of its stored ciphertext, the auto-lock
\* timeout is scheduled, and an index run is started with the same password
C4_UnlockSuccess ==
    [][\A u \in unlocks :
          (handleUnlockDone(u) /\ UnlockResult(u).ok) =>
              /\ u.note.id \in DOMAIN decryptedCache'
              /\ decryptedCache'[u.note.id].content = UnlockResult(u).value
              /\ decryptedCache'[u.note.id].content = saved[u.note.id].content
              /\ timers' = {lockTimerRef'}
              /\ \E r \in runs' \ runs :
                    /\ r.password = u.password
                    /\ r.attachments = u.note.attachments
                    /\ r.idx = 1]_vars

\* the selected note is unlocked, the timeout is pending and a run that
\* holds the typed password has asked for the first attachment
C4_Witness ==
    /\ selectedNoteId \in DOMAIN decryptedCache
    /\ decryptedCache[selectedNoteId].content = <<97>>
    /\ lockTimerRef \in timers
    /\ \E r \in runs : r.password = <<112>> /\ r.idx = 1

\* C5: when the decryption of handleUnlock fails, the cache gains no entry,
\* the pending timeout is neither cancelled nor rescheduled, no index run is
\* started and "Invalid key." is alerted
C5_UnlockFailure ==
    [][\A u \in unlocks :
          (handleUnlockDone(u) /\ ~UnlockResult(u).ok) =>
              /\ decryptedCache' = decryptedCache
              /\ timers' = timers /\ lockTimerRef' = lockTimerRef
              /\ runs' = runs
              /\ lastAlert' = "Invalid key."]_vars

\* an attempt has just failed while another one's plaintext is cached, its
\* timeout is pending and its run is in flight
C5_Witness ==
    /\ lastAlert = "Invalid key."
    /\ decryptedCache # EmptyMap
    /\ lockTimerRef \in timers
    /\ runs # {}

\* C6: a lock operation is available whenever something is unlocked, and it
\* clears the cached plaintext and cancels the pending timeout; the one handler
\* that locks on the user's request is handleSelectNote
C6_LockAvailable ==
    (decryptedCache # EmptyMap \/ timers # {}) =>
        ENABLED (\E id \in NoteIds : handleSelectNote(id))

(***************************************************************************)
(* The attachment indexer                                                  *)
(***************************************************************************)
\* C7: a path is indexed at most once: whatever the index runs and their
\* interleaving, each attachment path is fetched and decoded into the preview
\* cache at most once
C7_IndexedAtMostOnce == \A q \in Paths : indexed[q] <= 1

(***************************************************************************)
(* Saving                                                                  *)
(***************************************************************************)
\* C8: every persisted note, as getNotes returns it, is encrypted iff it has
\* an iv and a salt, and then its content is the ciphertext of the text last
\* saved; an unencrypted note's content is the text last saved, without iv
\* and salt
C8_PersistedNotes ==
    \A id \in DOMAIN dbNotes :
        LET n == getNotes(dbNotes)[id]
            last == saved[id]
        IN  /\ n.is_encrypted <=> (n.iv # Empty /\ n.salt # Empty)
            /\ n.is_encrypted =>
                   decryptData(n.content, n.iv, n.salt, last.password) = Ok(last.content)
            /\ ~n.is_encrypted => n.content = last.content

\* what a save hands to the remote stores, the title aside
SentStrings ==
    {wire.record.content, wire.record.iv, wire.record.salt}
        \cup {wire.uploads[i] : i \in 1..Len(wire.uploads)}

\* C9: a save with encryption enabled hands the record store the ciphertext of
\* encryptData and the file store the packed output of encryptFile, and hands
\* no store the plaintext content, the attachment bytes or the password
C9_ZeroKnowledge ==
    (wire # None /\ wire.req.is_encrypted) =>
        LET req == wire.req
        IN  /\ \E salt \in AppSalts, iv \in AppIvs :
                  wire.record.content =
                      encryptData(req.content, req.password, NoSalt, salt, iv).ciphertext
            /\ Len(wire.uploads) = Len(req.files)
            /\ \A i \in 1..Len(req.files) :
                  \E salt \in AppSalts, iv \in AppIvs :
                      wire.uploads[i] = encryptFile(req.files[i].data, req.password, salt, iv)
            /\ req.content \notin SentStrings
            /\ req.password \notin SentStrings
            /\ \A i \in 1..Len(req.files) : req.files[i].data \notin SentStrings

\* an encrypted note has been saved again with a new attachment
C9_Witness ==
    /\ wire # None
    /\ wire.req.kind = "update" /\ wire.req.is_encrypted
    /\ Len(wire.uploads) = 1

(***************************************************************************)
(* The cipher functions                                                    *)
(***************************************************************************)
\* C10: for every string t and password p, decryptData of what
\* encryptData(t, p) returned, with the same p, returns t
C10_TextRoundTrip ==
    (IsTextPayload(cPayload) /\ cOut # None /\ cTry = cPwd) => cOut = Ok(cText)

\* C11: for every byte buffer b and password p, decryptFile of
\* encryptFile(b, p), with the same p, yields exactly the bytes b
C11_FileRoundTrip ==
    (IsFilePayload(cPayload) /\ cOut # None /\ cTry = cPwd) => cOut = Ok(cText)

\* a buffer of the greatest length has gone through encryptFile and decryptFile
C11_Witness ==
    /\ IsFilePayload(cPayload) /\ Len(cText) = MaxLen
    /\ cTry = cPwd /\ cOut = Ok(cText)

\* C12: for every text t and passwords p1 # p2, decryptData of what
\* encryptData(t, p1) returned fails with password p2 and returns no plaintext
C12_WrongKeyRejected ==
    (IsTextPayload(cPayload) /\ cOut # None /\ cTry # cPwd) => ~cOut.ok

WrongPassword(u) == u.password # saved[u.note.id].password
Tampered(u) == u.note.content # wire.record.content

\* C13: a wrong password and a ciphertext with one bit flipped both make the
\* decryption fail, and handleUnlock then ends the same way for both: the
\* "Invalid key." alert and an unchanged session
C13_UndifferentiatedFailure ==
    [][\A u \in unlocks :
          (handleUnlockDone(u) /\ (WrongPassword(u) \/ Tampered(u))) =>
              /\ ~UnlockResult(u).ok
              /\ lastAlert' = "Invalid key."
              /\ decryptedCache' = decryptedCache
              /\ timers' = timers /\ lockTimerRef' = lockTimerRef
              /\ runs' = runs]_vars

\* C14: the output of encryptFile is HeaderLen bytes longer than the
\* ciphertext with its tag; bytes [0,16) are the salt and bytes [16,28) the iv
\* of that encryption, the rest is the ciphertext; decryptFile decrypts what
\* it reads at exactly those offsets
C14_PackedLayout ==
    IsFilePayload(cPayload) =>
        LET blob == cPayload.blob
            encrypted == GcmEncrypt(deriveKey(getPasswordKey(cPwd), cSalt), cIv, cText)
        IN  /\ Len(encrypted) = Len(cText) + TagLen
            /\ Len(blob) = HeaderLen + Len(encrypted)
            /\ SubSeq(blob, 1, SaltLen) = cSalt
            /\ SubSeq(blob, SaltLen + 1, HeaderLen) = cIv
            /\ SubSeq(blob, HeaderLen + 1, Len(blob)) = encrypted
            /\ cOut # None =>
                   cOut = GcmDecrypt(deriveKey(getPasswordKey(cTry), SubSeq(blob, 1, SaltLen)),
                                     SubSeq(blob, SaltLen + 1, HeaderLen),
                                     SubSeq(blob, HeaderLen + 1, Len(blob)))

\* the packed blob of an empty file, which is the header and the tag alone,
\* has been read back by decryptFile
C14_Witness ==
    /\ IsFilePayload(cPayload)
    /\ cText = <<>> /\ Len(cPayload.blob) = HeaderLen + TagLen
    /\ cOut # None

(***************************************************************************)
(* Overlapping unlocks and the timeout                                     *)
(***************************************************************************)
\* the attempt was started while another one was in flight
StartedDuringAnother(u) == u.uid > 1

\* C15: when two handleUnlock attempts overlap and the one started second
\* completes last, with success, the cache then holds exactly the plaintext
\* that attempt wrote and the one pending timeout is the one it scheduled
C15_LastUnlockWins ==
    [][\A u \in unlocks :
          (/\ handleUnlockDone(u)
           /\ StartedDuringAnother(u) /\ unlocks = {u}
           /\ UnlockResult(u).ok) =>
              /\ decryptedCache' = CacheAfterUnlock(EmptyMap, u, UnlockResult(u).value)
              /\ timers' = {lockTimerRef'}]_vars

\* C16: in every reachable state at most one auto-lock timeout is pending,
\* and it is the one lockTimerRef holds: a successful handleUnlock clears the
\* earlier one before it sets its own, also when attempts overlap or follow a
\* handleSelectNote
C16_AtMostOneTimer == Cardinality(timers) <= 1 /\ timers \subseteq {lockTimerRef}

\* two overlapping attempts have both succeeded and one timeout is pending
C16_Witness ==
    /\ Cardinality(DOMAIN decryptedCache) = 2
    /\ unlocks = {}
    /\ timers = {lockTimerRef}

\* C17: the auto-lock countdown is restarted only by a successful
\* handleUnlock.  Entering edit mode, saving an update, previewing or
\* downloading an attachment, fetching notes and a failed unlock attempt
\* leave the pending timer and the handle in lockTimerRef as they were; the
\* only other steps that touch the timer cancel it (handleSelectNote) or are
\* its own expiry (LockTimerFires), and neither schedules a new one.
SuccessfulUnlock ==
    \E u \in unlocks : UnlockResult(u).ok /\ handleUnlockDone(u)

C17_ResetOnlyByUnlock ==
    [][ /\ (timers' # timers \/ lockTimerRef' # lockTimerRef)
            => \/ SuccessfulUnlock
               \/ \E id \in NoteIds : handleSelectNote(id)
               \/ \E t \in timers : LockTimerFires(t)
        /\ (timers' \ timers # {} \/ lockTimerRef' # lockTimerRef)
            => SuccessfulUnlock ]_vars

\* the countdown is pending while the note has been edited and saved and an
\* attachment has been previewed and downloaded
C17_Witness ==
    /\ lockTimerRef \in timers
    /\ wire # None /\ wire.req.kind = "update"
    /\ previewData # None
    /\ downloadedFile # None
    /\ lastAlert = "Invalid key."
\* C18: after the component has been torn down no auto-lock timeout is
\* pending, so its callback never runs: teardown cancels the pending timeout
\* and none becomes pending afterwards, also when a handleUnlock decryption
\* was in flight at teardown.
C18_NoTimerAfterTeardown == ~mounted => timers = {}
C20_OnePathAtATime ==
    \A r \in runs : \A rd \in readers : rd.rid # r.rid
\* C21: a fetch or decrypt failure for one path of an index run is caught and
\* does not end the run.  In the step in which the download of a path fails,
\* or its bytes do not decrypt, no preview cache and no FileReader gets
\* anything for the path, no alert is shown, selection and decrypted cache
\* stay as they are, and the run waits for the download of the next path of
\* its note that needs indexing, if there is one.
FetchFails(r, primary) ==
    LET blob == downloadFile(primary, [ok |-> FALSE, error |-> [message |-> ObjectNotFound]])
    IN  ~blob.ok \/ ~FinalBlob(r, blob.value).ok

LaterPaths(r) ==
    {i \in (r.idx + 1)..Len(r.attachments) :
        \/ isTextFile(r.attachments[i].ext) /\ r.attachments[i] \notin r.textKeys
        \/ isImageFile(r.attachments[i].ext) /\ r.attachments[i] \notin r.imageKeys}

C21_FailureDoesNotAbort ==
    [][\A r \in runs : \A primary \in PrimaryAnswers(RunPath(r)) :
          (FetchFails(r, primary) /\ IndexFetched(r, primary))
              => /\ attachmentTextCache' = attachmentTextCache
                 /\ attachmentImageCache' = attachmentImageCache
                 /\ readers' = readers
                 /\ lastAlert' = ""
                 /\ selectedNoteId' = selectedNoteId
                 /\ decryptedCache' = decryptedCache
                 /\ LaterPaths(r) # {}
                       => \E n \in runs' :
                             /\ n.rid = r.rid
                             /\ n.idx \in LaterPaths(r)
                             /\ \A i \in LaterPaths(r) : n.idx <= i]_vars

\* a run with a key that does not decrypt has failed on its first path, has
\* cached nothing for it and is waiting for the download of its second path
C21_Witness ==
    \E r \in runs :
        /\ r.is_encrypted /\ r.password = <<113>>
        /\ r.idx = 2
        /\ r.attachments[1] \notin DOMAIN attachmentTextCache
        /\ \A rd \in readers : rd.rid # r.rid
\* C22: an index run is never cancelled.  Selecting a note and the auto-lock
\* timeout leave every run and every FileReader in place; a download that
\* answers with bytes that decode is stored in the shared preview cache under
\* its path, whatever is selected by then; and, every download and FileReader
\* answering in the end, each run comes to its end.
C22_RunNeverCancelled ==
    /\ \A rid \in RunIds :
          (rid \in UsedRunIds(runs)) ~> (rid \notin UsedRunIds(runs))
    /\ [][(\/ \E id \in NoteIds : handleSelectNote(id)
           \/ \E t \in timers : LockTimerFires(t))
              => runs \subseteq runs' /\ readers' = readers]_vars
    /\ [][\A r \in runs : \A primary \in PrimaryAnswers(RunPath(r)) :
             (~FetchFails(r, primary) /\ IndexFetched(r, primary))
                => IF NeedsText(r)
                   THEN RunPath(r) \in DOMAIN attachmentTextCache'
                   ELSE \E rd \in readers' : rd.path = RunPath(r) /\ rd.rid = r.rid]_vars
    /\ [][\A rd \in readers :
             ReaderLoadEnd(rd) => rd.path \in DOMAIN attachmentImageCache']_vars

\* a run started by an unlock is still waiting for its second download, with
\* a FileReader of its own outstanding, while the session is locked again and
\* the note without attachments is the selected one
C22_Witness ==
    /\ HasSelected /\ selectedNote.attachments = <<>>
    /\ decryptedCache = EmptyMap
    /\ \E r \in runs : r.idx = 2 /\ \E rd \in readers : rd.rid = r.rid
\* C23: attachment preview cache entries are never evicted: no step of the
\* session (select, auto-lock timeout, successful or failed unlock, save,
\* update, refetch, index step) removes a path from the text or the image
\* preview cache.
C23_PreviewsNeverEvicted ==
    [][/\ DOMAIN attachmentTextCache \subseteq DOMAIN attachmentTextCache'
       /\ DOMAIN attachmentImageCache \subseteq DOMAIN attachmentImageCache']_vars

\* both caches hold an entry after the note has been updated, a wrong key has
\* been refused and the session is locked
C23_Witness ==
    /\ DOMAIN attachmentTextCache # {}
    /\ DOMAIN attachmentImageCache # {}
    /\ wire # None /\ wire.req.kind = "update"
    /\ decryptedCache = EmptyMap /\ timers = {}
    /\ lastAlert = "Invalid key."
\* C24: validation comes before every side effect.  A handleSaveNewNote with
\* encryption on and an empty password, or a password that differs from its
\* confirmation, and a handleUpdateNote with encryption on and neither an edit
\* password nor an unlock password, start no save (so no encryptData,
\* encryptFile, upload, insert or update follows) and leave the persisted
\* notes, the file store and the uploading flag as they were; hence no save
\* under way or completed has encryption on with an empty password.
NoSideEffect ==
    /\ saving' = None
    /\ UNCHANGED <<dbNotes, store, wire, saved, isUploading, fetching>>

C24_ValidationFirst ==
    /\ [][\A title \in {"", Title}, content \in Texts,
             password \in TypedPasswords, confirmPassword \in TypedPasswords :
             ( /\ password = Empty \/ password # confirmPassword
               /\ handleSaveNewNoteStart(title, content, TRUE, password,
                                         confirmPassword, <<>>) )
                 => NoSideEffect]_vars
    /\ [][\A content \in Texts :
             ( /\ unlockPassword = Empty
               /\ handleUpdateNoteStart(content, TRUE, Empty, <<>>) )
                 => NoSideEffect]_vars
    /\ [](saving # None /\ saving.is_encrypted => saving.password # Empty)
    /\ [](wire # None /\ wire.req.is_encrypted => wire.req.password # Empty)

\* a saved note is in the edit form and an update with encryption on and no
\* password at all has just been refused
C24_Witness ==
    /\ EditFormShown
    /\ unlockPassword = Empty
    /\ lastAlert = "Password required to save encrypted note"
    /\ saving = None /\ ~isUploading
\* C25: db.downloadFile returns the data of the primary bucket whenever the
\* primary download succeeds; it asks the legacy bucket only when the primary
\* error reports "Object not found" and returns the legacy data if that
\* download succeeds; in every other case it throws the primary error as it
\* is; it asks no bucket twice.
PrimaryNotFound ==
    ~dPrimary.ok /\ Includes(dPrimary.error.message, ObjectNotFound)

C25_DownloadFallback ==
    dOut # None =>
        /\ dPrimary.ok => dOut = Ok(dPrimary.value)
        /\ dCalls = IF PrimaryNotFound THEN <<"primary", "legacy">> ELSE <<"primary">>
        /\ (PrimaryNotFound /\ dLegacy.ok) => dOut = Ok(dLegacy.value)
        /\ (~dPrimary.ok /\ ~(PrimaryNotFound /\ dLegacy.ok)) => dOut = dPrimary

\* the primary bucket failed with another error, the legacy bucket would have
\* had the file, and the primary error has been thrown
C25_Witness ==
    /\ dOut # None
    /\ ~dPrimary.ok /\ ~PrimaryNotFound
    /\ dLegacy.ok
    /\ dOut = dPrimary
\* C26: whenever the decrypted-note cache is not empty, the auto-lock timeout
\* that will empty it is pending, under every interleaving of unlock
\* completions, selects and the timeout callback.
C26_CachedImpliesTimer ==
    decryptedCache # EmptyMap => lockTimerRef \in timers

\* plaintext of a note that is no longer the selected one is cached, put there
\* by an unlock that completed after the selection had changed
C26_Witness ==
    /\ decryptedCache # EmptyMap
    /\ HasSelected /\ selectedNoteId \notin DOMAIN decryptedCache
    /\ timers # {}
\* C27: whenever the decrypted-note cache holds an entry for a note, that note
\* is the selected one: nothing that changes or clears the selection (a
\* select, New Note, Back, a delete, an unlock that completes after the
\* selection changed) leaves plaintext cached for a note that is not selected.
C27_CachedIsSelected ==
    \A id \in DOMAIN decryptedCache : id = selectedNoteId
\* C28: cache coherence.  Once no save and no refetch is under way, the
\* content the decrypted-note cache holds for a persisted encrypted note is
\* the decryption of the ciphertext persisted for it: after an update of an
\* unlocked note and the refetch, the cached content is the content saved.
C28_CacheCoherent ==
    (saving = None /\ ~fetching) =>
        \A id \in DOMAIN decryptedCache \cap DOMAIN dbNotes :
            LET n == getNotes(dbNotes)[id]
            IN  n.is_encrypted =>
                    decryptData(n.content, n.iv, n.salt, saved[id].password)
                        = Ok(decryptedCache[id].content)
\* C29: after any sequence of creates and updates every attachment blob of a
\* persisted note is in the state the note declares: for an encrypted note it
\* is a packed blob that decryptFile opens with the password that decrypts
\* the note's content, for a note that is not encrypted it is the raw bytes of
\* the file.
C29_AttachmentsAsDeclared ==
    \A id \in DOMAIN dbNotes :
        LET n == getNotes(dbNotes)[id]
        IN  \A i \in 1..Len(n.attachments) :
                LET blob == store[n.attachments[i]]
                IN  IF n.is_encrypted
                    THEN decryptFile(blob, saved[id].password).ok
                    ELSE blob \in {FileTxt.data, FilePng.data}
\* C30: once an encrypted note is locked, the search results do not depend on
\* any decrypted data of it: for every query the filtered list is the one
\* that the same state without the note's decrypted content and without the
\* decrypted text of its attachments gives.
WithoutNote(cache, id) == [k \in DOMAIN cache \ {id} |-> cache[k]]

WithoutPaths(textCache, paths) ==
    [q \in DOMAIN textCache \ {paths[i] : i \in 1..Len(paths)} |-> textCache[q]]

C30_SearchIgnoresLocked ==
    \A id \in DOMAIN notes :
        (notes[id].is_encrypted /\ id \notin DOMAIN decryptedCache) =>
            \A searchQuery \in Queries :
                filteredNotes(searchQuery, decryptedCache, attachmentTextCache)
                    = filteredNotes(searchQuery, WithoutNote(decryptedCache, id),
                                    WithoutPaths(attachmentTextCache,
                                                 notes[id].attachments))
====
